---- MODULE Spec2Model ----
(***************************************************************************)
(* Model of sync.py: the one-way reconciliation of an Airtable table with  *)
(* the PCRS CSV export.  A run fetches both tables, PATCHes the records    *)
(* whose compared columns differ, POSTs the records missing in Airtable    *)
(* and prints the records missing in the export.                           *)
(*                                                                         *)
(* Tables are pandas DataFrames: a set of columns and a sequence of rows,  *)
(* each row a function from the columns to cell values.  NaN stands for a  *)
(* missing cell.  An uncaught Python exception ends the run: pc becomes    *)
(* "crashed" and exc names the exception.                                  *)
(*                                                                         *)
(* Preconditions taken from the data model: pivot values are unique within *)
(* a table and every remote record carries the pivot field; the export's   *)
(* header holds the pivot column and the compared columns.                 *)
(***************************************************************************)
EXTENDS Integers, Sequences, FiniteSets, TLC

VARIABLES
    store,        \* Airtable: the records the remote table holds, [id, fields]
    csv,          \* PCRS: the response of the export URL, [status, rows]
    served,       \* the pages Airtable serves to the listing requests
    airtable_df,  \* main: airtable_df, or Unset
    pcrs_df,      \* main: pcrs_df (a DataFrame, or the error string), or Unset
    pc,           \* the position of the run
    exc,          \* the uncaught exception that ended the run, or "none"
    todo,         \* the rows the current iterrows() loop still has to visit
    reqs,         \* the HTTP requests of this run to Airtable, in order
    reported,     \* the rows print(deleted_records.head()) has shown
    run,          \* 1 for the first run, 2 for the re-run
    prev          \* the requests of the first run, once it is re-run

vars == <<store, csv, served, airtable_df, pcrs_df, pc, exc, todo, reqs, reported, run, prev>>

----------------------------------------------------------------------------
(* Bounds of the model *)

MaxRemote == 2
MaxExport == 2
MaxPages == 3
MaxPageRecords == 2
MaxReportRows == 6

(* How many records Airtable puts on one page of the listing (100 in the
   service; 1 here so that a table of two records spans two pages). *)
PageSize == 1

----------------------------------------------------------------------------
(* Configuration and values *)

PIVOT_COLUMN == "ref"

COLUMNS_TO_CHECK == <<"status">>

ID_COLUMN == "airtable_record_id"

\* a column of the export that is neither the pivot nor compared
EXTRA_COLUMN == "comment"

\* a field of Airtable that is neither the pivot nor compared
REMOTE_COLUMN == "assignee"

CheckedSet == {COLUMNS_TO_CHECK[i] : i \in DOMAIN COLUMNS_TO_CHECK}

CsvHeader == {PIVOT_COLUMN, EXTRA_COLUMN} \cup CheckedSet

NaN == "NaN"

Unset == [type |-> "unset"]

Pivots == {"A1", "B2", "C3"}

ValuesOf(c) == {"open", "closed"}

EmptyDict == [c \in {} |-> NaN]

\* pandas.head(): the first five rows
HEAD_ROWS == 5

----------------------------------------------------------------------------
(* Sequences *)

Range(s) == {s[i] : i \in DOMAIN s}

FirstN(s, n) == SubSeq(s, 1, IF Len(s) < n THEN Len(s) ELSE n)

----------------------------------------------------------------------------
(* pandas *)

\* pd.DataFrame(list of dicts): the columns are the union of the keys, a key a
\* record lacks is a NaN cell; an empty list gives a frame without columns.
DataFrame(data) ==
    LET cols == UNION {DOMAIN data[i] : i \in DOMAIN data}
    IN  [type |-> "DataFrame", columns |-> cols,
         rows |-> [i \in DOMAIN data |->
                    [c \in cols |-> IF c \in DOMAIN data[i] THEN data[i][c] ELSE NaN]]]

\* df[column] / df[list of columns] raises KeyError unless the columns exist;
\* indexing a str with a column name raises TypeError
HasColumns(df, cols) == cols \subseteq df.columns

Column(df, c) == {df.rows[i][c] : i \in DOMAIN df.rows}

\* elementwise DataFrame.eq: a missing cell equals nothing, not even a missing cell
CellEq(a, b) == a # NaN /\ b # NaN /\ a = b

\* pd.read_csv: the header names the columns, an empty cell is a missing value
read_csv(text) ==
    [type |-> "DataFrame", columns |-> text.header,
     rows |-> [i \in DOMAIN text.lines |->
                [c \in text.header |->
                    IF text.lines[i][c] = "" THEN NaN ELSE text.lines[i][c]]]]

----------------------------------------------------------------------------
(* The Airtable service *)

RECURSIVE Paginate(_, _)
\* the listing of the table, cut into pages; page i carries the continuation
\* token i while records remain, and no token (0) on the last page
Paginate(records, n) ==
    IF Len(records) <= PageSize
    THEN <<[records |-> records, offset |-> 0]>>
    ELSE <<[records |-> SubSeq(records, 1, PageSize), offset |-> n]>>
         \o Paginate(SubSeq(records, PageSize + 1, Len(records)), n + 1)

\* the answer to GET with the given query parameters: the first page without
\* an offset parameter, the page after page t with offset = t, and an error
\* body (no "records", no "offset") for a token that names no page
ServerList(pages, params) ==
    LET n == IF "offset" \in DOMAIN params THEN params["offset"] + 1 ELSE 1
    IN  IF n \in DOMAIN pages THEN pages[n] ELSE [records |-> <<>>, offset |-> 0]

----------------------------------------------------------------------------
(* get_airtable_data *)

\* all_records = records in place of all_records.extend(records)
ExtendAll_KeepsLastPage(all_records, records) == records

ExtendAll(all_records, records) == all_records \o records

RECURSIVE FetchLoop(_, _, _, _)
\* the while True loop: one GET per iteration, until a page has a falsy offset
FetchLoop(pages, offset, all_records, gets) ==
    LET params == IF offset # 0 THEN ("offset" :> offset) ELSE EmptyDict
        response_data == ServerList(pages, params)
        records == response_data.records
        all2 == ExtendAll(all_records, records)
        gets2 == Append(gets, [method |-> "GET", target |-> 0, fields |-> params, status |-> 200])
        offset2 == response_data.offset
    IN  IF offset2 = 0
        THEN [all_records |-> all2, gets |-> gets2]
        ELSE FetchLoop(pages, offset2, all2, gets2)

\* record.get("fields", {}) with record_data["airtable_record_id"] = record.get("id")
RecordData(record) == (ID_COLUMN :> record.id) @@ record.fields

get_airtable_data(pages) ==
    LET got == FetchLoop(pages, 0, <<>>, <<>>)
        data == [i \in DOMAIN got.all_records |-> RecordData(got.all_records[i])]
    IN  [df |-> DataFrame(data), gets |-> got.gets]

----------------------------------------------------------------------------
(* get_csv_export_data *)

ErrorString(status) ==
    [type |-> "str", value |-> "Error: Unable to download CSV file, status code", code |-> status]

\* the status of the response is not looked at
get_csv_export_data_Unchecked(response) == read_csv(response.text)

get_csv_export_data(response) ==
    IF response.status # 200
    THEN ErrorString(response.status)
    ELSE read_csv(response.text)

IsDataFrame(v) == v.type = "DataFrame"

----------------------------------------------------------------------------
(* synchronize_different_records *)

PivotsOf(df) == Column(df, PIVOT_COLUMN)

\* the exception lines 136-149 raise before the first request, or "none"
DiffException(adf, pdf) ==
    IF ~HasColumns(adf, {PIVOT_COLUMN}) THEN "KeyError"
    ELSE IF ~IsDataFrame(pdf) THEN "TypeError"
    ELSE IF ~HasColumns(pdf, {PIVOT_COLUMN}) THEN "KeyError"
    ELSE IF ~HasColumns(adf, CheckedSet) THEN "KeyError"
    ELSE IF ~HasColumns(pdf, CheckedSet) THEN "KeyError"
    ELSE "none"

\* pcrs_df.loc[index] once pcrs_df is indexed by the pivot
Loc(pdf, index) == CHOOSE r \in Range(pdf.rows) : r[PIVOT_COLUMN] = index

\* lines 136-145: the rows of airtable_df whose pivot occurs in pcrs_df, in order
CommonRows(adf, pdf) ==
    SelectSeq(adf.rows, LAMBDA r : r[PIVOT_COLUMN] \in PivotsOf(pdf))

\* airtable_df[COLUMNS_TO_CHECK].eq(pcrs_df[COLUMNS_TO_CHECK]).all(axis=1)
RowEq(arow, prow) == \A c \in CheckedSet : CellEq(arow[c], prow[c])

different_records(adf, pdf) ==
    SelectSeq(CommonRows(adf, pdf), LAMBDA r : ~RowEq(r, Loc(pdf, r[PIVOT_COLUMN])))

\* pcrs_df.loc[index].to_dict(): the whole row of the export
updated_data_WholeRow(pdf, index) == Loc(pdf, index)

\* pcrs_df.loc[index, COLUMNS_TO_CHECK].to_dict()
updated_data(pdf, index) == [c \in CheckedSet |-> Loc(pdf, index)[c]]

----------------------------------------------------------------------------
(* synchronize_missing_records *)

MissingException(adf, pdf) ==
    IF ~IsDataFrame(pdf) THEN "TypeError"
    ELSE IF ~HasColumns(pdf, {PIVOT_COLUMN}) THEN "KeyError"
    ELSE IF ~HasColumns(adf, {PIVOT_COLUMN}) THEN "KeyError"
    ELSE "none"

\* the filter on the pivots of airtable_df is left out
missing_records_Unfiltered(adf, pdf) == pdf.rows

missing_records(adf, pdf) ==
    SelectSeq(pdf.rows, LAMBDA r : ~(r[PIVOT_COLUMN] \in PivotsOf(adf)))

\* the compared columns are left out of the new record
create_data_PivotOnly(row) == [c \in {PIVOT_COLUMN} |-> row[c]]

\* row[COLUMNS_TO_CHECK].to_dict() with data[PIVOT_COLUMN] = row[PIVOT_COLUMN]
create_data(row) == [c \in CheckedSet \cup {PIVOT_COLUMN} |-> row[c]]

----------------------------------------------------------------------------
(* synchronize_deleted_records *)

DeletedException(adf, pdf) ==
    IF ~HasColumns(adf, {PIVOT_COLUMN}) THEN "KeyError"
    ELSE IF ~IsDataFrame(pdf) THEN "TypeError"
    ELSE IF ~HasColumns(pdf, {PIVOT_COLUMN}) THEN "KeyError"
    ELSE "none"

deleted_records(adf, pdf) ==
    SelectSeq(adf.rows, LAMBDA r : ~(r[PIVOT_COLUMN] \in PivotsOf(pdf)))

\* print(deleted_records.head())
head(rows) == FirstN(rows, HEAD_ROWS)

----------------------------------------------------------------------------
(* requests: the JSON body and the answers of Airtable *)

\* json.dumps has no JSON for a missing value: requests from 2.26 on raises
\* InvalidJSONError, older ones send the literal NaN, which is no JSON
HasNaN(fields) == \E c \in DOMAIN fields : fields[c] = NaN

PatchStatuses(fields) == IF HasNaN(fields) THEN {422} ELSE {200, 422}

\* a POST is answered 200, refused with a JSON error body, or fails with a
\* body that is no JSON (a gateway's 502 page)
PostResponses(fields) ==
    (IF HasNaN(fields) THEN {} ELSE {[status |-> 200, json |-> TRUE]})
    \cup {[status |-> 422, json |-> TRUE], [status |-> 502, json |-> FALSE]}

\* PATCH overwrites the fields given and keeps the others
ApplyPatch(records, id, fields) ==
    [i \in DOMAIN records |->
        IF records[i].id = id
        THEN [records[i] EXCEPT !.fields = fields @@ records[i].fields]
        ELSE records[i]]

\* POST adds the record under a fresh identifier
ApplyPost(records, fields) ==
    Append(records, [id |-> Len(records) + 1, fields |-> fields])

Request(method, target, fields, status) ==
    [method |-> method, target |-> target, fields |-> fields, status |-> status]

----------------------------------------------------------------------------
(* The inputs of a run *)

DistinctPivots(rows) ==
    \A i, j \in DOMAIN rows : i # j => rows[i][PIVOT_COLUMN] # rows[j][PIVOT_COLUMN]

SeqsUpTo(S, n) == UNION {[1..k -> S] : k \in 0..n}

CellValues == UNION {ValuesOf(c) : c \in CheckedSet}

\* a pivot value and, per compared column, a value or none
KeyedRows ==
    {f \in [{PIVOT_COLUMN} \cup CheckedSet -> Pivots \cup CellValues \cup {NaN}] :
        /\ f[PIVOT_COLUMN] \in Pivots
        /\ \A c \in CheckedSet : f[c] \in ValuesOf(c) \cup {NaN}}

\* Airtable leaves an empty field out of the record; every record has a
\* field the export knows nothing of
RemoteFields(f) ==
    [c \in {c \in DOMAIN f : f[c] # NaN} \cup {REMOTE_COLUMN} |->
        IF c = REMOTE_COLUMN THEN "team" ELSE f[c]]

RemoteTables ==
    {[i \in DOMAIN rows |-> [id |-> i, fields |-> RemoteFields(rows[i])]] :
        rows \in {r \in SeqsUpTo(KeyedRows, MaxRemote) : DistinctPivots(r)}}

\* a line of the CSV: an empty cell is the empty string
CsvLine(f) ==
    [c \in CsvHeader |->
        IF c = EXTRA_COLUMN THEN "n/a" ELSE IF f[c] = NaN THEN "" ELSE f[c]]

CsvTexts ==
    {[header |-> CsvHeader, lines |-> [i \in DOMAIN rows |-> CsvLine(rows[i])]] :
        rows \in {r \in SeqsUpTo(KeyedRows, MaxExport) : DistinctPivots(r)}}

ExportResponses ==
    {[status |-> 200, text |-> t] : t \in CsvTexts}
    \cup {[status |-> 500, text |-> [header |-> {}, lines |-> <<>>]]}

Init ==
    /\ store \in RemoteTables
    /\ csv \in ExportResponses
    /\ served = Paginate(store, 1)
    /\ airtable_df = Unset
    /\ pcrs_df = Unset
    /\ pc = "step1"
    /\ exc = "none"
    /\ todo = <<>>
    /\ reqs = <<>>
    /\ reported = <<>>
    /\ run = 1
    /\ prev = <<>>

----------------------------------------------------------------------------
(* main *)

Raise(e) ==
    /\ pc' = "crashed"
    /\ exc' = e
    /\ todo' = <<>>

\* Step 1: airtable_df = get_airtable_data(airtable_base_url)
Step1 ==
    /\ pc = "step1"
    /\ LET got == get_airtable_data(served)
       IN  /\ airtable_df' = got.df
           /\ reqs' = reqs \o got.gets
    /\ pc' = "step2"
    /\ UNCHANGED <<store, csv, served, pcrs_df, exc, todo, reported, run, prev>>

\* Step 2: pcrs_df = get_csv_export_data(CSV_EXPORT_URL)
Step2 ==
    /\ pc = "step2"
    /\ pcrs_df' = get_csv_export_data(csv)
    /\ pc' = "diff"
    /\ UNCHANGED <<store, csv, served, airtable_df, exc, todo, reqs, reported, run, prev>>

\* synchronize_different_records raises before its loop
DiffRaises ==
    /\ pc = "diff"
    /\ DiffException(airtable_df, pcrs_df) # "none"
    /\ Raise(DiffException(airtable_df, pcrs_df))
    /\ UNCHANGED <<store, csv, served, airtable_df, pcrs_df, reqs, reported, run, prev>>

\* synchronize_different_records up to its loop
DiffBegin ==
    /\ pc = "diff"
    /\ DiffException(airtable_df, pcrs_df) = "none"
    /\ todo' = different_records(airtable_df, pcrs_df)
    /\ pc' = IF todo' = <<>> THEN "missing" ELSE "patching"
    /\ UNCHANGED <<store, csv, served, airtable_df, pcrs_df, exc, reqs, reported, run, prev>>

\* requests.patch cannot encode the body
PatchRaises ==
    /\ pc = "patching"
    /\ HasNaN(updated_data(pcrs_df, Head(todo)[PIVOT_COLUMN]))
    /\ Raise("InvalidJSONError")
    /\ UNCHANGED <<store, csv, served, airtable_df, pcrs_df, reqs, reported, run, prev>>

\* one iteration of the loop over different_records
PatchSend ==
    /\ pc = "patching"
    /\ LET row == Head(todo)
           airtable_record_id == row[ID_COLUMN]
           data == updated_data(pcrs_df, row[PIVOT_COLUMN])
       IN  \E status \in PatchStatuses(data) :
             /\ reqs' = Append(reqs, Request("PATCH", airtable_record_id, data, status))
             /\ store' = IF status = 200
                         THEN ApplyPatch(store, airtable_record_id, data)
                         ELSE store
    /\ todo' = Tail(todo)
    /\ pc' = IF todo' = <<>> THEN "missing" ELSE "patching"
    /\ UNCHANGED <<csv, served, airtable_df, pcrs_df, exc, reported, run, prev>>

\* synchronize_missing_records raises before its loop
MissingRaises ==
    /\ pc = "missing"
    /\ MissingException(airtable_df, pcrs_df) # "none"
    /\ Raise(MissingException(airtable_df, pcrs_df))
    /\ UNCHANGED <<store, csv, served, airtable_df, pcrs_df, reqs, reported, run, prev>>

\* synchronize_missing_records up to its loop
MissingBegin ==
    /\ pc = "missing"
    /\ MissingException(airtable_df, pcrs_df) = "none"
    /\ todo' = missing_records(airtable_df, pcrs_df)
    /\ pc' = IF todo' = <<>> THEN "deleted" ELSE "posting"
    /\ UNCHANGED <<store, csv, served, airtable_df, pcrs_df, exc, reqs, reported, run, prev>>

\* requests.post cannot encode the body
PostRaises ==
    /\ pc = "posting"
    /\ HasNaN(create_data(Head(todo)))
    /\ Raise("InvalidJSONError")
    /\ UNCHANGED <<store, csv, served, airtable_df, pcrs_df, reqs, reported, run, prev>>

\* one iteration of the loop over missing_records; on a failure the loop
\* prints response.json(), which raises when the body is no JSON
PostSend ==
    /\ pc = "posting"
    /\ LET data == create_data(Head(todo))
       IN  \E response \in PostResponses(data) :
             /\ reqs' = Append(reqs, Request("POST", 0, data, response.status))
             /\ store' = IF response.status = 200 THEN ApplyPost(store, data) ELSE store
             /\ IF response.status # 200 /\ ~response.json
                THEN Raise("JSONDecodeError")
                ELSE /\ todo' = Tail(todo)
                     /\ pc' = IF todo' = <<>> THEN "deleted" ELSE "posting"
                     /\ exc' = exc
    /\ UNCHANGED <<csv, served, airtable_df, pcrs_df, reported, run, prev>>

\* synchronize_deleted_records raises
DeletedRaises ==
    /\ pc = "deleted"
    /\ DeletedException(airtable_df, pcrs_df) # "none"
    /\ Raise(DeletedException(airtable_df, pcrs_df))
    /\ UNCHANGED <<store, csv, served, airtable_df, pcrs_df, reqs, reported, run, prev>>

\* synchronize_deleted_records, then "Synchronization completed!"
Deleted ==
    /\ pc = "deleted"
    /\ DeletedException(airtable_df, pcrs_df) = "none"
    /\ reported' = head(deleted_records(airtable_df, pcrs_df))
    /\ pc' = "completed"
    /\ UNCHANGED <<store, csv, served, airtable_df, pcrs_df, exc, todo, reqs, run, prev>>

\* the operator runs the script once more on the same export
Rerun ==
    /\ pc = "completed"
    /\ run = 1
    /\ run' = 2
    /\ prev' = reqs
    /\ served' = Paginate(store, 1)
    /\ airtable_df' = Unset
    /\ pcrs_df' = Unset
    /\ reqs' = <<>>
    /\ reported' = <<>>
    /\ pc' = "step1"
    /\ UNCHANGED <<store, csv, exc, todo>>

Next ==
    \/ Step1
    \/ Step2
    \/ DiffRaises
    \/ DiffBegin
    \/ PatchRaises
    \/ PatchSend
    \/ MissingBegin
    \/ PostRaises
    \/ PostSend
    \/ Deleted
    \/ Rerun

Spec == Init /\ [][Next]_vars

----------------------------------------------------------------------------
(* get_airtable_data against any sequence of pages *)

RECURSIVE CountBefore(_, _)
CountBefore(shape, i) == IF i <= 1 THEN 0 ELSE CountBefore(shape, i - 1) + shape[i - 1][1]

\* shape[i] = <<the number of records of page i, whether it carries a token>>
PagesOf(shape) ==
    [i \in DOMAIN shape |->
        [records |-> [j \in 1..shape[i][1] |->
                        [id |-> CountBefore(shape, i) + j,
                         fields |-> (PIVOT_COLUMN :> "A1")]],
         offset |-> IF shape[i][2] THEN i ELSE 0]]

PageShapes == UNION {[1..n -> (0..MaxPageRecords) \X BOOLEAN] : n \in 1..MaxPages}

InitFetch ==
    /\ served \in {PagesOf(shape) : shape \in PageShapes}
    /\ store = <<>>
    /\ csv = [status |-> 500, text |-> [header |-> {}, lines |-> <<>>]]
    /\ airtable_df = Unset
    /\ pcrs_df = Unset
    /\ pc = "step1"
    /\ exc = "none"
    /\ todo = <<>>
    /\ reqs = <<>>
    /\ reported = <<>>
    /\ run = 1
    /\ prev = <<>>

NextFetch == Step1

SpecFetch == InitFetch /\ [][NextFetch]_vars

----------------------------------------------------------------------------
(* synchronize_missing_records called on any pair of tables *)

InitMissing ==
    /\ store \in RemoteTables
    /\ csv \in {r \in ExportResponses : r.status = 200}
    /\ served = Paginate(store, 1)
    /\ airtable_df = get_airtable_data(served).df
    /\ pcrs_df = get_csv_export_data(csv)
    /\ pc = "missing"
    /\ exc = "none"
    /\ todo = <<>>
    /\ reqs = <<>>
    /\ reported = <<>>
    /\ run = 1
    /\ prev = <<>>

NextMissing ==
    \/ MissingRaises
    \/ MissingBegin
    \/ PostRaises
    \/ PostSend

SpecMissing == InitMissing /\ [][NextMissing]_vars

----------------------------------------------------------------------------
(* synchronize_deleted_records called on tables of up to MaxReportRows rows *)

\* the remote table holds the pivots 1..n
ReportRemote(n) ==
    DataFrame([i \in 1..n |->
        RecordData([id |-> i, fields |-> (PIVOT_COLUMN :> i)])])

\* the export holds the pivots of S, in increasing order
ReportExport(n, S) ==
    [type |-> "DataFrame", columns |-> CsvHeader,
     rows |-> SelectSeq([i \in 1..n |->
                            [c \in CsvHeader |-> IF c = PIVOT_COLUMN THEN i ELSE NaN]],
                        LAMBDA r : r[PIVOT_COLUMN] \in S)]

InitReport ==
    /\ \E n \in 0..MaxReportRows : \E S \in SUBSET (1..n) :
          /\ airtable_df = ReportRemote(n)
          /\ pcrs_df = ReportExport(n, S)
    /\ store = <<>>
    /\ csv = [status |-> 200, text |-> [header |-> CsvHeader, lines |-> <<>>]]
    /\ served = <<>>
    /\ pc = "deleted"
    /\ exc = "none"
    /\ todo = <<>>
    /\ reqs = <<>>
    /\ reported = <<>>
    /\ run = 1
    /\ prev = <<>>

NextReport ==
    \/ DeletedRaises
    \/ Deleted

SpecReport == InitReport /\ [][NextReport]_vars

----------------------------------------------------------------------------
(* The vocabulary of the properties: the two tables as the passes receive them *)

Loaded == airtable_df.type = "DataFrame" /\ pcrs_df.type = "DataFrame"

\* the pivot values of a table
Keys(df) == {df.rows[i][PIVOT_COLUMN] : i \in DOMAIN df.rows}

\* the value of a field of a record, NaN when the record has none
Cell(row, c) == IF c \in DOMAIN row THEN row[c] ELSE NaN

RemoteRow(p) == CHOOSE r \in Range(airtable_df.rows) : r[PIVOT_COLUMN] = p

ExportRow(p) == CHOOSE r \in Range(pcrs_df.rows) : r[PIVOT_COLUMN] = p

ExportValues(p, cols) == [c \in cols |-> ExportRow(p)[c]]

\* a joined pair differs in a compared field: a missing value differs from a
\* present one, and two missing values are the same
Differs(arow, prow) == \E c \in CheckedSet : Cell(arow, c) # Cell(prow, c)

Sent(log, method) == SelectSeq(log, LAMBDA r : r.method = method)

PatchesTo(id) == {i \in DOMAIN reqs : reqs[i].method = "PATCH" /\ reqs[i].target = id}

PostsOf(p) ==
    {i \in DOMAIN reqs : reqs[i].method = "POST" /\ reqs[i].fields[PIVOT_COLUMN] = p}

IsWrite(r) == r.method \in {"PATCH", "POST"}

DiffOver == pc \in {"missing", "posting", "deleted", "completed", "crashed"}

----------------------------------------------------------------------------
(* Properties *)

\* C1: once synchronize_missing_records has ended, every pivot value of the
\* export that the remote table lacks has exactly one POST, whose fields are
\* the pivot and the compared columns with the export's values, and a pivot
\* value of the remote table has none; for any pair of tables, the empty
\* remote table included.
C1_InsertMissing ==
    pc \in {"deleted", "crashed"} =>
        \A p \in Keys(pcrs_df) :
            IF p \in Keys(airtable_df)
            THEN PostsOf(p) = {}
            ELSE /\ Cardinality(PostsOf(p)) = 1
                 /\ \A i \in PostsOf(p) :
                        reqs[i].fields = ExportValues(p, CheckedSet \cup {PIVOT_COLUMN})

\* C2: once synchronize_different_records has ended, every pivot value of both
\* tables whose pair differs in a compared column has exactly one PATCH, sent
\* to the identifier of the remote record, with the export's values of the
\* compared columns.
C2_DiffUpdates ==
    (Loaded /\ DiffOver) =>
        \A r \in Range(airtable_df.rows) :
            (r[PIVOT_COLUMN] \in Keys(pcrs_df) /\ Differs(r, ExportRow(r[PIVOT_COLUMN]))) =>
                /\ Cardinality(PatchesTo(r[ID_COLUMN])) = 1
                /\ \A i \in PatchesTo(r[ID_COLUMN]) :
                       reqs[i].fields = ExportValues(r[PIVOT_COLUMN], CheckedSet)

\* C3: a pivot value of both tables whose records have the same values in all
\* compared columns, a column missing in both included, gets no PATCH.
C3_NoUpdateWhenIdentical ==
    Loaded =>
        \A r \in Range(airtable_df.rows) :
            (r[PIVOT_COLUMN] \in Keys(pcrs_df) /\ ~Differs(r, ExportRow(r[PIVOT_COLUMN]))) =>
                PatchesTo(r[ID_COLUMN]) = {}

\* C4: a PATCH carries compared columns only (never the pivot, the identifier
\* or another column of the export), and the fields of the remote records
\* outside the compared columns keep the values they were fetched with.
C4_PatchOnlyCompared ==
    /\ \A i \in DOMAIN reqs :
          reqs[i].method = "PATCH" => DOMAIN reqs[i].fields \subseteq CheckedSet
    /\ airtable_df.type = "DataFrame" =>
          \A r \in Range(airtable_df.rows) : \A k \in DOMAIN store :
              store[k].id = r[ID_COLUMN] =>
                  \A c \in DOMAIN r \ (CheckedSet \cup {ID_COLUMN}) :
                      Cell(store[k].fields, c) = r[c]

C4_Witness ==
    \E i \in DOMAIN reqs : reqs[i].method = "PATCH" /\ reqs[i].status = 200

\* C5: once synchronize_deleted_records has returned, every pivot value of the
\* remote table that the export lacks is among the rows it has printed.
C5_ReportDeleted ==
    pc = "completed" =>
        \A p \in Keys(airtable_df) \ Keys(pcrs_df) :
            \E i \in DOMAIN reported : reported[i][PIVOT_COLUMN] = p

RECURSIVE AllPageRecords(_)
AllPageRecords(pages) ==
    IF pages = <<>> THEN <<>> ELSE Head(pages).records \o AllPageRecords(Tail(pages))

RECURSIVE SumOfCounts(_)
SumOfCounts(pages) ==
    IF pages = <<>> THEN 0 ELSE Len(Head(pages).records) + SumOfCounts(Tail(pages))

\* every page but the last carries a truthy token, the last one none
WellFormedPages(pages) ==
    \A i \in DOMAIN pages : (pages[i].offset # 0) <=> (i < Len(pages))

\* C6: served well-formed pages, get_airtable_data requests every page once and
\* in order (the first without offset, each next one with the token of the page
\* before), stops after the last page, and returns as many rows as the pages
\* hold records, each with its record's identifier.
C6_FetchAll ==
    (pc = "step2" /\ WellFormedPages(served)) =>
        /\ Len(reqs) = Len(served)
        /\ \A i \in DOMAIN reqs :
              /\ reqs[i].method = "GET"
              /\ reqs[i].fields =
                    IF i = 1 THEN EmptyDict ELSE ("offset" :> served[i - 1].offset)
        /\ Len(airtable_df.rows) = SumOfCounts(served)
        /\ \A k \in DOMAIN airtable_df.rows :
              airtable_df.rows[k][ID_COLUMN] = AllPageRecords(served)[k].id

C6_Witness ==
    /\ pc = "step2"
    /\ WellFormedPages(served)
    /\ Len(served) >= 3
    /\ \A i \in DOMAIN served : Len(served[i].records) >= 1
    /\ Len(airtable_df.rows) >= 4

\* C7: when the export answers with a status other than 200, the fetcher
\* returns the error string (step 3 is reached), and the run then ends in an
\* exception of synchronize_different_records without any PATCH or POST.
C7_ExportFailureIsFatal ==
    (csv.status # 200 /\ pc \notin {"step1", "step2"}) =>
        /\ pcrs_df.type = "str"
        /\ pc \in {"diff", "crashed"}
        /\ pc = "diff" => exc = "none"
        /\ pc = "crashed" => exc \in {"KeyError", "TypeError"}
        /\ \A i \in DOMAIN reqs : ~IsWrite(reqs[i])

C7_Witness ==
    /\ csv.status # 200
    /\ pc = "crashed"
    /\ exc = "TypeError"
    /\ Len(store) >= 2

\* C8: unless an exception raised before a request is sent has stopped it, a
\* run ends with the completion message, having sent exactly one PATCH per
\* record found different and one POST per record of the export missing in
\* Airtable, in the order of the tables, whatever the answers were.
C8_WriteFailureDoesNotAbort ==
    (/\ Loaded
     /\ pc \in {"completed", "crashed"}
     /\ exc \notin {"KeyError", "TypeError", "InvalidJSONError"}) =>
        /\ pc = "completed"
        /\ LET sent == Sent(reqs, "PATCH")
               want == different_records(airtable_df, pcrs_df)
           IN  /\ Len(sent) = Len(want)
               /\ \A i \in DOMAIN sent : sent[i].target = want[i][ID_COLUMN]
        /\ LET sent == Sent(reqs, "POST")
               want == missing_records(airtable_df, pcrs_df)
           IN  /\ Len(sent) = Len(want)
               /\ \A i \in DOMAIN sent :
                     sent[i].fields[PIVOT_COLUMN] = want[i][PIVOT_COLUMN]

AllOk(log) == \A i \in DOMAIN log : IsWrite(log[i]) => log[i].status = 200

\* C9: after a run that completed with every PATCH and POST answered 200 and
\* applied by Airtable, a second run on the same export sends no PATCH and no
\* POST.
C9_RerunIdempotent ==
    (run = 2 /\ AllOk(prev)) => \A i \in DOMAIN reqs : ~IsWrite(reqs[i])

C9_Witness ==
    /\ run = 2
    /\ pc = "completed"
    /\ AllOk(prev)
    /\ Sent(prev, "PATCH") # <<>>
    /\ Sent(prev, "POST") # <<>>

RemoteOnlyRows == {r \in Range(airtable_df.rows) : r[PIVOT_COLUMN] \notin Keys(pcrs_df)}

C10_Requests ==
    /\ \A i \in DOMAIN reqs : reqs[i].method \in {"GET", "PATCH", "POST"}
    /\ ~Loaded => \A i \in DOMAIN reqs : ~IsWrite(reqs[i])
    /\ Loaded =>
          /\ \A i \in DOMAIN reqs :
                /\ reqs[i].method = "PATCH" =>
                      \E r \in Range(airtable_df.rows) :
                          /\ r[ID_COLUMN] = reqs[i].target
                          /\ r[PIVOT_COLUMN] \in Keys(pcrs_df)
                /\ reqs[i].method = "POST" =>
                      reqs[i].fields[PIVOT_COLUMN] \notin Keys(airtable_df)
          /\ \A r \in RemoteOnlyRows : \E k \in DOMAIN store :
                /\ store[k].id = r[ID_COLUMN]
                /\ \A c \in DOMAIN r \ {ID_COLUMN} : Cell(store[k].fields, c) = r[c]

\* C10: in every state of a run no request is a DELETE, every PATCH goes to
\* the identifier of a remote record whose pivot value the export holds, every
\* POST carries a pivot value the fetched remote table lacks, the remote
\* records the export lacks are as they were fetched, and
\* synchronize_deleted_records sends no request and changes no record.
C10_RemoteOnlyUntouched ==
    /\ []C10_Requests
    /\ [][pc = "deleted" => (reqs' = reqs /\ store' = store)]_vars

C10_Witness ==
    /\ pc = "completed"
    /\ run = 1
    /\ Loaded
    /\ RemoteOnlyRows # {}
    /\ reported # <<>>
    /\ \E i \in DOMAIN reqs : reqs[i].method = "PATCH" /\ reqs[i].status = 200
    /\ \E i \in DOMAIN reqs : reqs[i].method = "POST" /\ reqs[i].status = 200

====
